---- MODULE Spec2Model ----
(***************************************************************************)
(* Heavy Machinery AI Chat: the Streamlit chat front end (app.py) and the  *)
(* one-shot administrative scripts that create the OpenSearch Serverless   *)
(* collection and the Bedrock Knowledge Base, wait for vendor jobs, set up *)
(* the Aurora database and open it to public access.                       *)
(*                                                                         *)
(* Spec        the chat front end: every action is one run of app.py       *)
(* SpecScripts the administrative scripts: Init starts one of them, every  *)
(*             action is one step of it between two vendor calls           *)
(* FairScripts SpecScripts with the fairness of a running Python process   *)
(***************************************************************************)
EXTENDS Integers, Sequences, FiniteSets, TLC

VARIABLES
    \* ---- app.py -------------------------------------------------------
    messages,        \* st.session_state.messages
    kb_id,           \* the sidebar text_input "Knowledge Base ID"
    aws_available,   \* outcome of the credential check of the latest run
    handled,         \* number of chat inputs that reached the handler
    last,            \* the latest handled input: prompt, branch, remote calls
    \* ---- administrative scripts -----------------------------------------
    script,          \* the script that is running
    pc,              \* its position
    rid,             \* id the vendor returned for the job / collection created
    remote,          \* vendor-side status of that job / collection
    status,          \* outcome of the latest status poll
    polls,           \* status polls made by the wait loop (MaxPolls: or more)
    attempt,         \* setup_opensearch_serverless.py: attempt
    intervals,       \* durations passed to time.sleep inside the wait loop
    ret,             \* value returned by the function the script runs
    printed,         \* messages printed so far
    exc,             \* message of the exception that left the script uncaught
    steps,           \* the setup steps attempted so far, in order, with outcomes
    app_py,          \* content of the file app.py in the working directory
    cloud,           \* OpenSearch Serverless resources that exist in the account
    run,             \* how many times the script has been started
    prev             \* the resources the previous run of the script created

appVars == <<messages, kb_id, aws_available, handled, last>>

scriptVars ==
    <<script, pc, rid, remote, status, polls, attempt, intervals, ret, printed, exc,
      steps, app_py, cloud, run, prev>>

\* the account and the history of runs, which a step of a run leaves alone
cloudVars == <<cloud, run, prev>>

vars == <<appVars, scriptVars>>

(***************************************************************************)
(* Bounds of the model                                                     *)
(***************************************************************************)
MaxInputs == 2
MaxPolls == 22
MaxRuns == 2

(***************************************************************************)
(* Text.  Error texts are sequences of characters, so that Python's        *)
(* `needle in text` is a real substring search.                            *)
(***************************************************************************)
NotFound == <<"N", "o", "t", "F", "o", "u", "n", "d">>
ResourceNotFound ==
    <<"R", "e", "s", "o", "u", "r", "c", "e", "N", "o", "t", "F", "o", "u", "n", "d">>
AccessDenied == <<"A", "c", "c", "e", "s", "s", "D", "e", "n", "i", "e", "d">>

ErrResourceNotFound ==
    <<"R", "e", "s", "o", "u", "r", "c", "e", "N", "o", "t", "F", "o", "u", "n", "d",
      "E", "x", "c", "e", "p", "t", "i", "o", "n">>
ErrAccessDenied ==
    <<"A", "c", "c", "e", "s", "s", "D", "e", "n", "i", "e", "d",
      "E", "x", "c", "e", "p", "t", "i", "o", "n">>
ErrBoth ==
    <<"A", "c", "c", "e", "s", "s", "D", "e", "n", "i", "e", "d", ":",
      "N", "o", "t", "F", "o", "u", "n", "d">>
ErrThrottling == <<"T", "h", "r", "o", "t", "t", "l", "i", "n", "g">>
ErrLowerCase ==
    <<"n", "o", "t", "f", "o", "u", "n", "d", " ",
      "a", "c", "c", "e", "s", "s", "d", "e", "n", "i", "e", "d">>

\* str(e) of the exceptions the remote helpers can raise
ErrorTexts == {ErrResourceNotFound, ErrAccessDenied, ErrBoth, ErrThrottling, ErrLowerCase}

\* Python: needle in hay
Contains(needle, hay) ==
    \E i \in 1..(Len(hay) - Len(needle) + 1) :
        SubSeq(hay, i, i + Len(needle) - 1) = needle

\* Python: c.lower() for the letters that occur in the answers typed
LowerChar(c) ==
    CASE c = "Y" -> "y"
      [] c = "E" -> "e"
      [] c = "S" -> "s"
      [] c = "N" -> "n"
      [] c = "O" -> "o"
      [] OTHER -> c

\* Python: text.lower()
Lower(text) == [i \in 1..Len(text) |-> LowerChar(text[i])]

Whitespace == {" ", "\t"}

\* Python: text.strip()
RECURSIVE Strip(_)
Strip(text) ==
    IF text = <<>> THEN <<>>
    ELSE IF Head(text) \in Whitespace THEN Strip(Tail(text))
    ELSE IF text[Len(text)] \in Whitespace THEN Strip(SubSeq(text, 1, Len(text) - 1))
    ELSE text

\* Python: content.replace(old, new) on a text given as its sequence of
\* lexical tokens: every occurrence of old, left to right, not overlapping
RECURSIVE Replace(_, _, _)
Replace(content, old, new) ==
    IF Len(content) < Len(old) \/ old = <<>> THEN content
    ELSE IF SubSeq(content, 1, Len(old)) = old
    THEN new \o Replace(SubSeq(content, Len(old) + 1, Len(content)), old, new)
    ELSE <<Head(content)>> \o Replace(Tail(content), old, new)

\* a string literal of the Python source
Quoted(s) == "\"" \o s \o "\""

(***************************************************************************)
(* app.py: configuration values and user inputs                            *)
(***************************************************************************)
DEMO_KB_ID == "your-knowledge-base-id"

\* lines 67-76 of app.py as shipped, the only place where the file names a
\* Knowledge Base id
AppPySource ==
    <<"kb_id", "=", "st.sidebar.text_input", "(", Quoted("Knowledge Base ID"), ",",
      Quoted(DEMO_KB_ID), ",", "help", "=",
      Quoted("Enter your Bedrock Knowledge Base ID from AWS Console"), ",",
      "placeholder", "=", Quoted("e.g., ABCD1234EF"), ")",
      "if", "kb_id", "==", Quoted(DEMO_KB_ID), ":">>

\* values typed into the sidebar field
KbIds == {DEMO_KB_ID, "", "your-knowledge-base-id ", "Your-Knowledge-Base-Id", "ABCD1234EF"}

\* st.chat_input returns a non-empty string, or None when nothing was submitted
Prompts == {"BD850 bulldozer specs"}

NoArg == "<none>"
NoText == <<>>

\* outcomes of sts.get_caller_identity(): it returns, raises an error the
\* script catches (NoCredentialsError, ClientError), or raises another one
CredentialOutcomes == {"ok", "caught", "uncaught"}

\* outcomes of the remote helpers imported from bedrock_utils
Returned(v) == [t |-> "ret", v |-> v, err |-> NoText]
Raised(e) == [t |-> "raise", v |-> FALSE, err |-> e]
RaisedText(e) == [t |-> "raise", v |-> "", err |-> e]
RaisedList(e) == [t |-> "raise", v |-> <<>>, err |-> e]

ValidPromptOutcomes == {Returned(TRUE), Returned(FALSE)} \cup {Raised(e) : e \in ErrorTexts}
QueryOutcomes ==
    {Returned(<<>>), Returned(<<"bd850-spec", "x950-spec">>)}
        \cup {RaisedList(e) : e \in ErrorTexts}
GenerateOutcomes == {Returned("The BD850 has 850 HP.")} \cup {RaisedText(e) : e \in ErrorTexts}

(***************************************************************************)
(* app.py: the chat input handler                                          *)
(***************************************************************************)
\* a message content: the kind of text and the values formatted into it
Content(kind, prompt, kb, err, text) ==
    [kind |-> kind, prompt |-> prompt, kb |-> kb, err |-> err, text |-> text]

\* a remote call: the helper, its arguments and what it returned or raised
Call(fn, prompt, kb, ctx, out) ==
    [fn |-> fn, prompt |-> prompt, kb |-> kb, ctx |-> ctx, out |-> out]

\* what handling one input did: the branch taken, the remote calls made in
\* order, the exception caught (if any) and the text of the assistant message
Result(branch, response, calls, raised, err) ==
    [branch |-> branch, response |-> response, calls |-> calls,
     raised |-> raised, err |-> err]

\* faulty variant: an empty id is taken for the placeholder too
IsDemoModeEmptyToo(kb) == kb = DEMO_KB_ID \/ kb = ""

\* kb_id == "your-knowledge-base-id"
IsDemoMode(kb) == kb = DEMO_KB_ID

\* faulty variant: the prompt is sent to the model without validation
DemoWithAwsNoValidation(prompt, vp, gr) ==
    LET c2 == Call("generate_response", prompt, NoArg, <<>>, gr)
    IN  IF gr.t = "raise"
        THEN Result("demo", Content("DemoError", NoArg, NoArg, gr.err, ""), <<c2>>, TRUE, gr.err)
        ELSE Result("demo", Content("Generated", NoArg, NoArg, NoText, gr.v), <<c2>>,
                    FALSE, NoText)

\* lines 144-166: demo mode with AWS
DemoWithAws(prompt, vp, gr) ==
    LET c1 == Call("valid_prompt", prompt, NoArg, <<>>, vp)
        c2 == Call("generate_response", prompt, NoArg, <<>>, gr)
    IN  IF vp.t = "raise"
        THEN Result("demo", Content("DemoError", NoArg, NoArg, vp.err, ""), <<c1>>, TRUE, vp.err)
        ELSE IF vp.v
        THEN IF gr.t = "raise"
             THEN Result("demo", Content("DemoError", NoArg, NoArg, gr.err, ""), <<c1, c2>>,
                         TRUE, gr.err)
             ELSE Result("demo", Content("Generated", NoArg, NoArg, NoText, gr.v), <<c1, c2>>,
                         FALSE, NoText)
        ELSE Result("demo", Content("DemoOffTopic", NoArg, NoArg, NoText, ""), <<c1>>,
                    FALSE, NoText)

\* lines 167-202: demo mode without AWS
DemoWithoutAws(prompt) ==
    Result("demo", Content("DemoCanned", prompt, NoArg, NoText, ""), <<>>, FALSE, NoText)

\* faulty variant: the two substring tests in the other order
ErrorResponseAccessFirst(error_msg, kb) ==
    IF Contains(AccessDenied, error_msg)
    THEN Content("KBAccessDenied", NoArg, kb, NoText, "")
    ELSE IF Contains(NotFound, error_msg) \/ Contains(ResourceNotFound, error_msg)
    THEN Content("KBNotFound", NoArg, kb, NoText, "")
    ELSE Content("KBError", NoArg, NoArg, error_msg, "")

\* lines 227-234: the except clause of Knowledge Base mode
ErrorResponse(error_msg, kb) ==
    IF Contains(NotFound, error_msg) \/ Contains(ResourceNotFound, error_msg)
    THEN Content("KBNotFound", NoArg, kb, NoText, "")
    ELSE IF Contains(AccessDenied, error_msg)
    THEN Content("KBAccessDenied", NoArg, kb, NoText, "")
    ELSE Content("KBError", NoArg, NoArg, error_msg, "")

\* faulty variant: the model is asked even when no document was retrieved
KBWithAwsNoResultCheck(prompt, kb, vp, qk, gr) ==
    LET c1 == Call("valid_prompt", prompt, NoArg, <<>>, vp)
        c2 == Call("query_knowledge_base", prompt, kb, <<>>, qk)
        c3 == Call("generate_response", prompt, NoArg, qk.v, gr)
    IN  IF vp.t = "raise"
        THEN Result("kb", ErrorResponse(vp.err, kb), <<c1>>, TRUE, vp.err)
        ELSE IF ~vp.v
        THEN Result("kb", Content("KBInvalid", NoArg, NoArg, NoText, ""), <<c1>>, FALSE, NoText)
        ELSE IF qk.t = "raise"
        THEN Result("kb", ErrorResponse(qk.err, kb), <<c1, c2>>, TRUE, qk.err)
        ELSE IF gr.t = "raise"
        THEN Result("kb", ErrorResponse(gr.err, kb), <<c1, c2, c3>>, TRUE, gr.err)
        ELSE Result("kb", Content("Generated", NoArg, NoArg, NoText, gr.v), <<c1, c2, c3>>,
                    FALSE, NoText)

\* lines 205-234: Knowledge Base mode with AWS
KBWithAws(prompt, kb, vp, qk, gr) ==
    LET c1 == Call("valid_prompt", prompt, NoArg, <<>>, vp)
        c2 == Call("query_knowledge_base", prompt, kb, <<>>, qk)
        c3 == Call("generate_response", prompt, NoArg, qk.v, gr)
    IN  IF vp.t = "raise"
        THEN Result("kb", ErrorResponse(vp.err, kb), <<c1>>, TRUE, vp.err)
        ELSE IF ~vp.v
        THEN Result("kb", Content("KBInvalid", NoArg, NoArg, NoText, ""), <<c1>>, FALSE, NoText)
        ELSE IF qk.t = "raise"
        THEN Result("kb", ErrorResponse(qk.err, kb), <<c1, c2>>, TRUE, qk.err)
        ELSE IF qk.v = <<>>
        THEN Result("kb", Content("KBNoResults", prompt, NoArg, NoText, ""), <<c1, c2>>,
                    FALSE, NoText)
        ELSE IF gr.t = "raise"
        THEN Result("kb", ErrorResponse(gr.err, kb), <<c1, c2, c3>>, TRUE, gr.err)
        ELSE Result("kb", Content("Generated", NoArg, NoArg, NoText, gr.v), <<c1, c2, c3>>,
                    FALSE, NoText)

\* lines 235-236: Knowledge Base mode without AWS
KBWithoutAws(kb) ==
    Result("kb", Content("KBAwsRequired", NoArg, kb, NoText, ""), <<>>, FALSE, NoText)

\* faulty variant: the remote branches are taken whatever aws_available is
DispatchIgnoringAws(prompt, kb, aws, vp, qk, gr) ==
    IF IsDemoMode(kb)
    THEN DemoWithAws(prompt, vp, gr)
    ELSE KBWithAws(prompt, kb, vp, qk, gr)

\* lines 142-236
Dispatch(prompt, kb, aws, vp, qk, gr) ==
    IF IsDemoMode(kb)
    THEN IF aws THEN DemoWithAws(prompt, vp, gr) ELSE DemoWithoutAws(prompt)
    ELSE IF aws THEN KBWithAws(prompt, kb, vp, qk, gr) ELSE KBWithoutAws(kb)

\* line 138
UserMessage(prompt) ==
    [role |-> "user", content |-> Content("Prompt", prompt, NoArg, NoText, "")]

\* faulty variant: an error text is displayed but not kept in the history
AppendAssistantUnlessError(msgs, response) ==
    IF response.err # NoText
    THEN msgs
    ELSE Append(msgs, [role |-> "assistant", content |-> response])

\* line 241
AppendAssistant(msgs, response) ==
    Append(msgs, [role |-> "assistant", content |-> response])

NoInput ==
    [prompt |-> NoArg, kb |-> NoArg, aws |-> FALSE, branch |-> "none", calls |-> <<>>,
     raised |-> FALSE, err |-> NoText]

\* every result the handler can produce for one input, over all outcomes of
\* the remote helpers
HandlerResults[prompt \in Prompts, kb \in KbIds, aws \in BOOLEAN] ==
    {Dispatch(prompt, kb, aws, vp, qk, gr) :
        vp \in ValidPromptOutcomes, qk \in QueryOutcomes, gr \in GenerateOutcomes}

AppStart ==
    /\ messages = <<>>
    /\ kb_id = DEMO_KB_ID
    /\ aws_available = FALSE
    /\ handled = 0
    /\ last = NoInput

\* an account without any OpenSearch Serverless policy or collection
NoResources == [policies |-> {}, collection |-> ""]

\* no administrative script is running
NoScript ==
    /\ script = "none"
    /\ pc = "done"
    /\ rid = ""
    /\ remote = "NONE"
    /\ status = "<none>"
    /\ polls = 0
    /\ attempt = 0
    /\ intervals = {}
    /\ ret = "<running>"
    /\ printed = {}
    /\ exc = ""
    /\ steps = <<>>
    /\ app_py = AppPySource
    /\ cloud = NoResources
    /\ run = 1
    /\ prev = {}

AppInit == AppStart /\ NoScript

\* lines 8-16: the credential check every run starts with.  An error other
\* than NoCredentialsError and ClientError ends the run at line 11: nothing
\* after it executes and the session state is left as it was.
RunAborted == UNCHANGED vars

\* A run triggered by editing the sidebar field: no chat input is submitted
EditKbId(k, cred) ==
    \/ /\ cred = "uncaught"
       /\ RunAborted
    \/ /\ cred # "uncaught"
       /\ kb_id' = k
       /\ aws_available' = (cred = "ok")
       /\ UNCHANGED <<messages, handled, last, scriptVars>>

\* A run triggered by submitting a chat input (lines 137-241)
ChatInput(prompt, cred, r) ==
    /\ handled < MaxInputs
    /\ \/ /\ cred = "uncaught"
          /\ RunAborted
       \/ /\ cred # "uncaught"
          /\ aws_available' = (cred = "ok")
          /\ messages' = AppendAssistant(Append(messages, UserMessage(prompt)), r.response)
          /\ last' = [prompt |-> prompt, kb |-> kb_id, aws |-> (cred = "ok"),
                      branch |-> r.branch, calls |-> r.calls,
                      raised |-> r.raised, err |-> r.err]
          /\ handled' = handled + 1
          /\ UNCHANGED <<kb_id, scriptVars>>

AppNext ==
    \/ \E k \in KbIds, cred \in CredentialOutcomes : EditKbId(k, cred)
    \/ \E p \in Prompts, cred \in CredentialOutcomes :
          \E r \in HandlerResults[p, kb_id, cred = "ok"] : ChatInput(p, cred, r)

Spec == AppInit /\ [][AppNext]_vars

(***************************************************************************)
(* The administrative scripts.  A vendor call is one step: its outcome is   *)
(* drawn from the answers the SDK can give (a response, a ClientError, or   *)
(* another exception such as a connection error).                           *)
(***************************************************************************)
IngestScripts == {"ingest_class", "ingest_guide"}
\* create_complete_knowledge_base calls the class's start_ingestion as its
\* fifth step
WithIngestion == IngestScripts \cup {"complete_kb"}
Scripts == IngestScripts \cup {"create_kb", "oss", "setup_db", "direct_aurora",
                                 "public_access", "complete_kb"}

\* ids the vendor hands out
ResourceIds == {"id-1", "id-2"}

None == "None"
Running == "<running>"

\* the vendor's ingestion job lifecycle (status field of get_ingestion_job)
JobStatuses == {"STARTING", "IN_PROGRESS", "COMPLETE", "FAILED", "STOPPING", "STOPPED"}
\* the vendor's collection lifecycle (status field of batch_get_collection)
CollectionStatuses == {"CREATING", "ACTIVE", "FAILED"}

NextRemote(s) ==
    CASE s = "STARTING" -> {"IN_PROGRESS", "FAILED"}
      [] s = "IN_PROGRESS" -> {"COMPLETE", "FAILED", "STOPPING"}
      [] s = "STOPPING" -> {"STOPPED"}
      [] s = "CREATING" -> {"ACTIVE", "FAILED"}
      [] OTHER -> {}

\* the vendor moves the job / collection on
RemoteAdvance ==
    /\ pc \notin {"done", "crashed"}
    /\ \E n \in NextRemote(remote) : remote' = n
    /\ UNCHANGED <<appVars, cloudVars, steps, app_py, script, pc, rid, status, polls, attempt, intervals, ret,
                   printed, exc>>

\* one entry of steps: the call, whether it succeeded, what it returned (an
\* id or an outcome label) and the text it carried (an error text, or the
\* line typed at a prompt)
Step(fn, ok, out, text) == [fn |-> fn, ok |-> ok, out |-> out, text |-> text]

CountPoll(n) == IF n < MaxPolls THEN n + 1 ELSE n

\* an exception no handler of the script catches
Crash(message) ==
    /\ pc' = "crashed"
    /\ exc' = message

(***************************************************************************)
(* create_knowledge_base_opensearch.py: start_ingestion (lines 213-253)    *)
(* create_knowledge_base_guide.py: start_ingestion_job (lines 92-131)      *)
(***************************************************************************)
\* `except Exception` (class) against `except ClientError` (guide)
CatchesIngest(sc, error) == sc \in {"ingest_class", "complete_kb"} \/ error = "client_error"

\* faulty variant: FAILED does not end the wait
IngestTerminalCompleteOnly == {"COMPLETE"}

\* the statuses that end the wait: the `if` / `elif` of the loop
IngestTerminal == {"COMPLETE", "FAILED"}

\* faulty variant: the interval grows with the number of polls
SleepSecondsBackoff(sc, n) == IF sc = "create_kb" THEN 10 * (n + 1) ELSE 30 * (n + 1)

\* the argument of time.sleep in the wait loop of script sc, after n polls
SleepSeconds(sc, n) == IF sc = "create_kb" THEN 10 ELSE 30

\* where the script goes on when the ingestion function has returned
AfterIngestion(sc) == IF sc = "complete_kb" THEN "summary" ELSE "done"

\* faulty variant: the except clause waits and checks the status again
IngestFailedKeepsWaiting ==
    /\ printed' = printed \cup {"Error starting ingestion"}
    /\ ret' = ret
    /\ pc' = "sleep"
    /\ exc' = exc

\* the except clause of the function: print and return None
IngestFailed ==
    /\ printed' = printed \cup {"Error starting ingestion"}
    /\ ret' = None
    /\ pc' = AfterIngestion(script)
    /\ exc' = exc

StartIngestion(outcome, id) ==
    /\ script \in WithIngestion
    /\ pc = "start"
    /\ steps' = Append(steps, Step("start_ingestion_job", outcome = "ok",
                                   IF outcome = "ok" THEN id ELSE None, NoText))
    /\ \/ /\ outcome = "ok"
          /\ rid' = id
          /\ remote' = "STARTING"
          /\ printed' = printed \cup {"Started ingestion job"}
          /\ pc' = "poll"
          /\ UNCHANGED <<ret, exc>>
       \/ /\ outcome # "ok"
          /\ CatchesIngest(script, outcome)
          /\ IngestFailed
          /\ UNCHANGED <<rid, remote>>
       \/ /\ outcome # "ok"
          /\ ~CatchesIngest(script, outcome)
          /\ Crash("<Error>")
          /\ UNCHANGED <<rid, remote, ret, printed>>
    /\ UNCHANGED <<appVars, cloudVars, app_py, script, status, polls, attempt, intervals>>

PollIngestion(outcome) ==
    /\ script \in WithIngestion
    /\ pc = "poll"
    /\ polls' = CountPoll(polls)
    /\ \/ /\ outcome = "status"
          /\ status' = remote
          /\ IF remote \in IngestTerminal
             THEN /\ printed' = printed \cup
                        {IF remote = "COMPLETE" THEN "Ingestion completed"
                                                ELSE "Ingestion failed"}
                  /\ ret' = rid
                  /\ pc' = AfterIngestion(script)
             ELSE /\ pc' = "sleep"
                  /\ UNCHANGED <<ret, printed>>
          /\ exc' = exc
       \/ /\ outcome \in {"client_error", "other_error"}
          /\ CatchesIngest(script, outcome)
          /\ status' = "<error>"
          /\ IngestFailed
       \/ /\ outcome \in {"client_error", "other_error"}
          /\ ~CatchesIngest(script, outcome)
          /\ status' = "<error>"
          /\ Crash("<Error>")
          /\ UNCHANGED <<ret, printed>>
    /\ UNCHANGED <<appVars, cloudVars, steps, app_py, script, rid, remote, attempt, intervals>>

SleepIngestion ==
    /\ script \in WithIngestion
    /\ pc = "sleep"
    /\ intervals' = intervals \cup {SleepSeconds(script, polls)}
    /\ pc' = "poll"
    /\ UNCHANGED <<appVars, cloudVars, steps, app_py, script, rid, remote, status, polls, attempt, ret, printed, exc>>

IngestStep ==
    \/ \E o \in {"ok", "client_error", "other_error"}, id \in ResourceIds :
          StartIngestion(o, id)
    \/ \E o \in {"status", "client_error", "other_error"} : PollIngestion(o)
    \/ SleepIngestion

(***************************************************************************)
(* create_knowledge_base.py: main (lines 227-286) and                      *)
(* create_opensearch_serverless_collection (lines 64-108)                  *)
(***************************************************************************)
\* lines 233-245: the three prerequisite checks
CKB_Prerequisites(outcome) ==
    /\ script = "create_kb"
    /\ pc = "prereq"
    /\ \/ /\ outcome = "ok"
          /\ pc' = "check_existing"
          /\ UNCHANGED <<printed, exc>>
       \/ /\ outcome \in {"no_credentials", "no_bedrock", "no_documents"}
          /\ printed' = printed \cup
                {CASE outcome = "no_credentials" -> "Please configure valid AWS credentials"
                   [] outcome = "no_bedrock" -> "Cannot access Bedrock service"
                   [] outcome = "no_documents" -> "No PDF documents found in S3"}
          /\ pc' = "done"
          /\ exc' = exc
       \/ /\ outcome = "other_error"
          /\ Crash("<Error>")
          /\ UNCHANGED printed
    /\ UNCHANGED <<appVars, cloudVars, steps, app_py, script, rid, remote, status, polls, attempt, intervals, ret>>

\* lines 256-258 of main, when the collection function returned None
CKB_MainNoCollection(lines) ==
    /\ printed' = printed \cup lines \cup {"Failed to create OpenSearch collection"}
    /\ ret' = None
    /\ pc' = "done"
    /\ exc' = exc

\* lines 71-78: is the collection already there
CKB_CheckExisting(outcome, id) ==
    /\ script = "create_kb"
    /\ pc = "check_existing"
    /\ \/ /\ outcome = "found"
          /\ rid' = id
          /\ remote' = remote
          /\ ret' = id
          /\ printed' = printed \cup {"OpenSearch collection already exists",
                                      "Creating Bedrock Knowledge Base..."}
          /\ pc' = "knowledge_base"
          /\ exc' = exc
       \/ /\ outcome \in {"empty", "client_error"}
          /\ pc' = "create"
          /\ UNCHANGED <<rid, remote, ret, printed, exc>>
       \/ /\ outcome = "other_error"
          /\ Crash("<Error>")
          /\ UNCHANGED <<rid, remote, ret, printed>>
    /\ UNCHANGED <<appVars, cloudVars, steps, app_py, script, status, polls, attempt, intervals>>

\* lines 80-89
CKB_CreateCollection(outcome, id) ==
    /\ script = "create_kb"
    /\ pc = "create"
    /\ \/ /\ outcome = "ok"
          /\ rid' = id
          /\ remote' = "CREATING"
          /\ printed' = printed \cup {"Created OpenSearch collection"}
          /\ pc' = "poll"
          /\ UNCHANGED <<ret, exc>>
       \/ /\ outcome = "client_error"
          /\ CKB_MainNoCollection({"Error creating OpenSearch collection"})
          /\ UNCHANGED <<rid, remote>>
       \/ /\ outcome = "other_error"
          /\ Crash("<Error>")
          /\ UNCHANGED <<rid, remote, ret, printed>>
    /\ UNCHANGED <<appVars, cloudVars, steps, app_py, script, status, polls, attempt, intervals>>

\* line 99: raise Exception("Collection creation failed"); the function's
\* only handler is `except ClientError` (line 106) and main has none
CKB_OnFailed ==
    /\ Crash("Collection creation failed")
    /\ UNCHANGED <<ret, printed>>

\* lines 93-101: one status check of the wait loop
CKB_Poll(outcome) ==
    /\ script = "create_kb"
    /\ pc = "poll"
    /\ polls' = CountPoll(polls)
    /\ \/ /\ outcome = "status"
          /\ status' = remote
          /\ \/ /\ remote = "ACTIVE"
                /\ ret' = rid
                /\ printed' = printed \cup {"OpenSearch collection is now active",
                                            "Creating Bedrock Knowledge Base..."}
                /\ pc' = "knowledge_base"
                /\ exc' = exc
             \/ /\ remote = "FAILED"
                /\ CKB_OnFailed
             \/ /\ remote \notin {"ACTIVE", "FAILED"}
                /\ pc' = "sleep"
                /\ UNCHANGED <<ret, printed, exc>>
       \/ /\ outcome = "empty"
          /\ status' = "<empty>"
          /\ Crash("IndexError")
          /\ UNCHANGED <<ret, printed>>
       \/ /\ outcome = "client_error"
          /\ status' = "<error>"
          /\ CKB_MainNoCollection({"Error creating OpenSearch collection"})
       \/ /\ outcome = "other_error"
          /\ status' = "<error>"
          /\ Crash("<Error>")
          /\ UNCHANGED <<ret, printed>>
    /\ UNCHANGED <<appVars, cloudVars, steps, app_py, script, rid, remote, attempt, intervals>>

\* lines 100-101
CKB_Sleep ==
    /\ script = "create_kb"
    /\ pc = "sleep"
    /\ intervals' = intervals \cup {SleepSeconds(script, polls)}
    /\ printed' = printed \cup {"Still creating..."}
    /\ pc' = "poll"
    /\ UNCHANGED <<appVars, cloudVars, steps, app_py, script, rid, remote, status, polls, attempt, ret, exc>>

\* lines 260-286: create_knowledge_base and the report of main
CKB_CreateKnowledgeBase(outcome) ==
    /\ script = "create_kb"
    /\ pc = "knowledge_base"
    /\ \/ /\ outcome = "ok"
          /\ printed' = printed \cup {"Success! Knowledge Base created"}
          /\ pc' = "done"
          /\ exc' = exc
       \/ /\ outcome = "client_error"
          /\ printed' = printed \cup {"Error creating Knowledge Base",
                                      "Failed to create Knowledge Base"}
          /\ pc' = "done"
          /\ exc' = exc
       \/ /\ outcome = "other_error"
          /\ Crash("<Error>")
          /\ UNCHANGED printed
    /\ UNCHANGED <<appVars, cloudVars, steps, app_py, script, rid, remote, status, polls, attempt, intervals, ret>>

CKB_Step ==
    \/ \E o \in {"ok", "no_credentials", "no_bedrock", "no_documents", "other_error"} :
          CKB_Prerequisites(o)
    \/ \E o \in {"found", "empty", "client_error", "other_error"}, id \in ResourceIds :
          CKB_CheckExisting(o, id)
    \/ \E o \in {"ok", "client_error", "other_error"}, id \in ResourceIds :
          CKB_CreateCollection(o, id)
    \/ \E o \in {"status", "empty", "client_error", "other_error"} : CKB_Poll(o)
    \/ CKB_Sleep
    \/ \E o \in {"ok", "client_error", "other_error"} : CKB_CreateKnowledgeBase(o)

(***************************************************************************)
(* setup_opensearch_serverless.py: OpenSearchServerlessSetup               *)
(***************************************************************************)
\* line 176
max_attempts == 20

\* the three policies of lines 235-245, by the step that creates each
PolicySteps == {"encryption", "network", "data_access"}

\* what the account can hold when the script starts: any of the three
\* policies, and possibly the collection named heavy-machinery-kb (line 15)
\* under the id the vendor gave it
Accounts == [policies : SUBSET PolicySteps, collection : {""} \cup ResourceIds]

\* the resources a run created, read off its steps
CreatedBy(log) == {log[i].fn : i \in {j \in 1..Len(log) : log[j].out \in {"created", "ok"}}}

\* lines 264-266 and 275-276: create_collection returned None (or a policy
\* step returned False, lines 236-245)
OSS_SetupFailed(lines) ==
    /\ printed' = printed \cup lines \cup {"Setup failed"}
    /\ ret' = None
    /\ pc' = "done"
    /\ exc' = exc

\* lines 254-263 and 272-274: create_collection returned the collection info
OSS_SetupComplete(id, lines) ==
    /\ printed' = printed \cup lines \cup
                     {"OpenSearch Serverless Setup Complete!",
                      "Ready to create Bedrock Knowledge Base!"}
    /\ ret' = id
    /\ pc' = "done"
    /\ exc' = exc

\* faulty variant: the collection is created before the data access policy
OSS_AfterPolicySkipsDataAccess(step) ==
    CASE step = "encryption" -> "network"
      [] step = "network" -> "create"
      [] step = "data_access" -> "create"

\* lines 235-249: the step that follows a policy step that returned True
OSS_AfterPolicy(step) ==
    CASE step = "encryption" -> "network"
      [] step = "network" -> "data_access"
      [] step = "data_access" -> "create"

\* lines 18-48, 50-86, 98-155: the three policy steps of lines 235-249
OSS_CreatePolicy(outcome) ==
    /\ script = "oss"
    /\ pc \in {"encryption", "network", "data_access"}
    /\ steps' = Append(steps, Step(pc, outcome \in {"created", "conflict"}, outcome, NoText))
    /\ \/ /\ outcome = "created"
          /\ pc \notin cloud.policies
          /\ cloud' = [cloud EXCEPT !.policies = @ \cup {pc}]
          /\ printed' = printed \cup {"Created policy: " \o pc}
          /\ pc' = OSS_AfterPolicy(pc)
          /\ UNCHANGED <<ret, exc>>
       \/ /\ outcome = "conflict"
          /\ pc \in cloud.policies
          /\ cloud' = cloud
          /\ printed' = printed \cup {"Policy already exists: " \o pc}
          /\ pc' = OSS_AfterPolicy(pc)
          /\ UNCHANGED <<ret, exc>>
       \/ /\ outcome = "client_error"
          /\ cloud' = cloud
          /\ OSS_SetupFailed({"Error creating policy: " \o pc})
       \/ /\ outcome = "no_user_arn"
          /\ pc = "data_access"
          /\ cloud' = cloud
          /\ OSS_SetupFailed({"Cannot create data access policy without user ARN"})
       \/ /\ outcome = "other_error"
          /\ cloud' = cloud
          /\ Crash("<Error>")
          /\ UNCHANGED <<ret, printed>>
    /\ UNCHANGED <<appVars, run, prev, app_py, script, rid, remote, status, polls, attempt,
                   intervals>>

\* lines 161-177 and 210-228: the create call and its except clause
OSS_CreateCollection(outcome, id) ==
    /\ script = "oss"
    /\ pc = "create"
    /\ steps' = Append(steps, Step("create_collection",
                                   outcome \in {"ok", "conflict_found"}, outcome, NoText))
    /\ \/ /\ outcome = "ok"
          /\ cloud.collection = ""
          /\ cloud' = [cloud EXCEPT !.collection = id]
          /\ rid' = id
          /\ remote' = "CREATING"
          /\ attempt' = 0
          /\ printed' = printed \cup {"Created OpenSearch collection"}
          /\ pc' = "poll"
          /\ UNCHANGED <<ret, exc>>
       \/ /\ outcome = "conflict_found"
          /\ cloud.collection # ""
          /\ id = cloud.collection
          /\ cloud' = cloud
          /\ rid' = id
          /\ OSS_SetupComplete(id, {"Collection already exists"})
          /\ UNCHANGED <<remote, attempt>>
       \/ /\ outcome = "conflict_not_listed"
          /\ cloud.collection # ""
          /\ cloud' = cloud
          /\ OSS_SetupFailed({"Collection already exists", "OpenSearch setup failed"})
          /\ UNCHANGED <<rid, remote, attempt>>
       \/ /\ outcome = "conflict_list_error"
          /\ cloud.collection # ""
          /\ cloud' = cloud
          /\ OSS_SetupFailed({"Collection already exists", "Error listing collections",
                              "OpenSearch setup failed"})
          /\ UNCHANGED <<rid, remote, attempt>>
       \/ /\ outcome = "client_error"
          /\ cloud' = cloud
          /\ OSS_SetupFailed({"Error creating OpenSearch collection",
                              "OpenSearch setup failed"})
          /\ UNCHANGED <<rid, remote, attempt>>
       \/ /\ outcome = "other_error"
          /\ cloud' = cloud
          /\ Crash("<Error>")
          /\ UNCHANGED <<rid, remote, attempt, ret, printed>>
    /\ UNCHANGED <<appVars, run, prev, app_py, script, status, polls, intervals>>

\* lines 180-206: one status check of the wait loop.  Every outcome but
\* ACTIVE, the raise of line 198 included, ends in attempt += 1 and a sleep.
OSS_Poll(outcome) ==
    /\ script = "oss"
    /\ pc = "poll"
    /\ polls' = CountPoll(polls)
    /\ \/ /\ outcome = "status"
          /\ status' = remote
          /\ \/ /\ remote = "ACTIVE"
                /\ OSS_SetupComplete(rid, {"Collection is active"})
                /\ UNCHANGED attempt
             \/ /\ remote = "FAILED"
                /\ printed' = printed \cup {"Error checking status"}
                /\ attempt' = attempt + 1
                /\ pc' = "sleep"
                /\ UNCHANGED <<ret, exc>>
             \/ /\ remote \notin {"ACTIVE", "FAILED"}
                /\ attempt' = attempt + 1
                /\ pc' = "sleep"
                /\ UNCHANGED <<ret, printed, exc>>
       \/ /\ outcome = "empty"
          /\ status' = "<empty>"
          /\ attempt' = attempt + 1
          /\ pc' = "sleep"
          /\ UNCHANGED <<ret, printed, exc>>
       \/ /\ outcome \in {"client_error", "other_error"}
          /\ status' = "<error>"
          /\ printed' = printed \cup {"Error checking status"}
          /\ attempt' = attempt + 1
          /\ pc' = "sleep"
          /\ UNCHANGED <<ret, exc>>
    /\ UNCHANGED <<appVars, cloudVars, steps, app_py, script, rid, remote, intervals>>

\* faulty variant: the loop test lets one more status check through
OSS_LoopGoesOnOneMore == attempt <= max_attempts

\* line 179: while attempt < max_attempts
OSS_LoopGoesOn == attempt < max_attempts

\* lines 201 / 206, then the loop test of line 179 and the raise of line 208,
\* which `except ClientError` (line 210) does not catch
OSS_Sleep ==
    /\ script = "oss"
    /\ pc = "sleep"
    /\ intervals' = intervals \cup {SleepSeconds(script, polls)}
    /\ IF OSS_LoopGoesOn
       THEN /\ pc' = "poll"
            /\ exc' = exc
       ELSE Crash("Collection did not become active within expected time")
    /\ UNCHANGED <<appVars, cloudVars, steps, app_py, script, rid, remote, status, polls, attempt, ret, printed>>

OSS_Step ==
    \/ \E o \in {"created", "conflict", "client_error", "no_user_arn", "other_error"} :
          OSS_CreatePolicy(o)
    \/ \E o \in {"ok", "conflict_found", "conflict_not_listed", "conflict_list_error",
                 "client_error", "other_error"}, id \in ResourceIds :
          OSS_CreateCollection(o, id)
    \/ \E o \in {"status", "empty", "client_error", "other_error"} : OSS_Poll(o)
    \/ OSS_Sleep

(***************************************************************************)
(* setup_database.py: main (lines 22-60)                                   *)
(***************************************************************************)
\* lines 31-46: the statements, named by what they create
sql_statements ==
    <<"CREATE EXTENSION vector", "CREATE SCHEMA bedrock_integration",
      "CREATE ROLE bedrock_user", "GRANT ALL ON SCHEMA",
      "SET SESSION AUTHORIZATION", "CREATE TABLE bedrock_kb",
      "CREATE INDEX bedrock_kb_embedding_idx">>

\* line 57: the two texts looked for in str(e)
duplicate_object ==
    <<"d", "u", "p", "l", "i", "c", "a", "t", "e", "_", "o", "b", "j", "e", "c", "t">>
already_exists == <<"a", "l", "r", "e", "a", "d", "y", " ", "e", "x", "i", "s", "t", "s">>

SqlErrDuplicateObject == <<"E", "R", "R", "O", "R", ":", " ">> \o duplicate_object
SqlErrAlreadyExists == <<"r", "o", "l", "e", " ">> \o already_exists
SqlErrAlreadyExistsCapitals ==
    <<"A", "l", "r", "e", "a", "d", "y", " ", "E", "x", "i", "s", "t", "s">>
SqlErrAccessDenied == <<"A", "c", "c", "e", "s", "s", "D", "e", "n", "i", "e", "d">>

\* str(e) of what execute_statement raises; NoText: it returned a response
SqlOutcomes ==
    {NoText, SqlErrDuplicateObject, SqlErrAlreadyExists, SqlErrAlreadyExistsCapitals,
     SqlErrAccessDenied}

\* faulty variant: every error is skipped
ToleratedAnyError(error) == TRUE

\* line 57: the error is not re-raised
Tolerated(error) == Contains(duplicate_object, error) \/ Contains(already_exists, error)

\* lines 50-60: one iteration of the loop; after the last one, line 60
SDB_Execute(error) ==
    /\ script = "setup_db"
    /\ pc = "execute"
    /\ LET sql == sql_statements[Len(steps) + 1]
           is_last == Len(steps) + 1 = Len(sql_statements)
           lines == IF error = NoText THEN {} ELSE {"Error executing SQL"}
       IN  /\ steps' = Append(steps, Step(sql, error = NoText, "", error))
           /\ IF error = NoText \/ Tolerated(error)
              THEN /\ printed' = printed \cup lines \cup
                          (IF is_last THEN {"Database schema setup completed successfully!"}
                                   ELSE {})
                   /\ pc' = IF is_last THEN "done" ELSE "execute"
                   /\ ret' = IF is_last THEN None ELSE ret
                   /\ exc' = exc
              ELSE /\ printed' = printed \cup lines
                   /\ Crash("<Error>")
                   /\ ret' = ret
    /\ UNCHANGED <<appVars, cloudVars, app_py, script, rid, remote, status, polls, attempt, intervals>>

SDB_Step == \E e \in SqlOutcomes : SDB_Execute(e)

(***************************************************************************)
(* direct_aurora_setup.py: main (lines 320-352) and setup_vector_database  *)
(* (lines 61-153)                                                          *)
(***************************************************************************)
\* lines 75-144: the seven numbered steps, by what each creates or grants
setup_steps ==
    <<"vector extension", "bedrock_integration schema", "bedrock_user role",
      "schema permissions", "bedrock_kb table", "HNSW index", "table permissions">>

\* faulty variant: True only if no step failed
SetupSuccessIfNoStepFailed(connected, log) ==
    IF connected /\ \A i \in 1..Len(log) : log[i].ok THEN "True" ELSE "False"

\* lines 149 and 153: the value setup_vector_database returns
SetupSuccess(connected, log) == IF connected THEN "True" ELSE "False"

\* lines 323-332: main stops before the setup when psycopg2 is missing or
\* the connection test fails
DAS_MainChecks(outcome) ==
    /\ script = "direct_aurora"
    /\ pc = "main"
    /\ \/ /\ outcome = "ok"
          /\ pc' = "connect"
          /\ UNCHANGED <<ret, printed>>
       \/ /\ outcome = "no_psycopg2"
          /\ printed' = printed \cup {"Cannot proceed without psycopg2"}
          /\ ret' = None
          /\ pc' = "done"
       \/ /\ outcome = "no_connection"
          /\ printed' = printed \cup {"Cannot connect to database"}
          /\ ret' = None
          /\ pc' = "done"
    /\ UNCHANGED <<appVars, cloudVars, steps, app_py, script, rid, remote, status, polls, attempt,
                   intervals, exc>>

\* lines 69-73 and 151-153: psycopg2.connect and the outer except clause
DAS_Connect(outcome) ==
    /\ script = "direct_aurora"
    /\ pc = "connect"
    /\ steps' = Append(steps, Step("connect", outcome = "ok", "", NoText))
    /\ \/ /\ outcome = "ok"
          /\ printed' = printed \cup {"Setting up vector database..."}
          /\ pc' = "setup_step"
          /\ ret' = ret
       \/ /\ outcome = "error"
          /\ printed' = printed \cup {"Setting up vector database...",
                                      "Database setup failed"}
          /\ ret' = SetupSuccess(FALSE, <<>>)
          /\ pc' = "verify"
    /\ UNCHANGED <<appVars, cloudVars, app_py, script, rid, remote, status, polls, attempt, intervals,
                   exc>>

\* lines 75-149: one numbered step, cursor.execute inside its own try; after
\* the seventh the connection is closed and the function returns
DAS_SetupStep(outcome) ==
    /\ script = "direct_aurora"
    /\ pc = "setup_step"
    /\ LET name == setup_steps[Len(steps)]
           is_last == Len(steps) = Len(setup_steps)
           line == IF outcome = "ok" THEN name \o " created" ELSE name \o " error"
       IN  /\ steps' = Append(steps, Step(name, outcome = "ok", "", NoText))
           /\ IF is_last
              THEN /\ printed' = printed \cup {line, "Vector database setup completed!"}
                   /\ ret' = SetupSuccess(TRUE, SubSeq(steps', 2, Len(steps')))
                   /\ pc' = "verify"
              ELSE /\ printed' = printed \cup {line}
                   /\ ret' = ret
                   /\ pc' = "setup_step"
    /\ UNCHANGED <<appVars, cloudVars, app_py, script, rid, remote, status, polls, attempt, intervals,
                   exc>>

\* lines 341-352: verify_database_setup, whose result main ignores, and the
\* closing message chosen by setup_success
DAS_VerifyAndReport(outcome) ==
    /\ script = "direct_aurora"
    /\ pc = "verify"
    /\ printed' = printed \cup
          (IF outcome = "ok" THEN {} ELSE {"Database verification failed"}) \cup
          (IF ret = "True" THEN {"Database setup and verification completed!"}
                           ELSE {"Database setup had some issues"})
    /\ pc' = "done"
    /\ UNCHANGED <<appVars, cloudVars, steps, app_py, script, rid, remote, status, polls, attempt,
                   intervals, ret, exc>>

DAS_Step ==
    \/ \E o \in {"ok", "no_psycopg2", "no_connection"} : DAS_MainChecks(o)
    \/ \E o \in {"ok", "error"} : DAS_Connect(o)
    \/ \E o \in {"ok", "error"} : DAS_SetupStep(o)
    \/ \E o \in {"ok", "error"} : DAS_VerifyAndReport(o)

(***************************************************************************)
(* aurora_public_access.py: enable_aurora_public_access (lines 10-46)      *)
(***************************************************************************)
yes == <<"y", "e", "s">>

\* lines typed at the 'Do you want to proceed? (yes/no)' prompt
Answers ==
    {yes, <<"Y", "E", "S">>, <<" ", "Y", "e", "s", " ">>, <<"y", "e", "s", "\t">>,
     <<"y">>, <<>>, <<"n", "o">>, <<"y", "e", " ", "s">>, <<"y", "e", "s", "!">>}

\* faulty variant: any answer that starts with y is taken for a confirmation
ConfirmedByFirstLetter(answer) ==
    LET response == Strip(Lower(answer))
    IN  response # <<>> /\ Head(response) = "y"

\* lines 22-24: response = input(...).lower().strip(); response != 'yes'
Confirmed(answer) == Strip(Lower(answer)) = yes

\* lines 44-46 and 24-26: the function returns False
PA_ReturnsFalse(line) ==
    /\ printed' = printed \cup {line}
    /\ ret' = "False"
    /\ pc' = "done"

\* line 17: boto3.client('rds')
PA_Client(outcome) ==
    /\ script = "public_access"
    /\ pc = "client"
    /\ steps' = Append(steps, Step("boto3.client", outcome = "ok", "", NoText))
    /\ \/ /\ outcome = "ok"
          /\ printed' = printed \cup {"WARNING: publicly accessible"}
          /\ pc' = "prompt"
          /\ ret' = ret
       \/ /\ outcome = "error"
          /\ PA_ReturnsFalse("Error enabling public access")
    /\ UNCHANGED <<appVars, cloudVars, app_py, script, rid, remote, status, polls, attempt, intervals,
                   exc>>

\* lines 22-28: the prompt; input raises EOFError when stdin is closed
PA_Prompt(outcome, answer) ==
    /\ script = "public_access"
    /\ pc = "prompt"
    /\ \/ /\ outcome = "line"
          /\ steps' = Append(steps, Step("input", TRUE, "", answer))
          /\ IF Confirmed(answer)
             THEN /\ printed' = printed \cup {"Modifying Aurora cluster"}
                  /\ pc' = "modify"
                  /\ ret' = ret
             ELSE PA_ReturnsFalse("Operation cancelled.")
       \/ /\ outcome = "eof"
          /\ answer = NoText
          /\ steps' = Append(steps, Step("input", FALSE, "", NoText))
          /\ PA_ReturnsFalse("Error enabling public access")
    /\ UNCHANGED <<appVars, cloudVars, app_py, script, rid, remote, status, polls, attempt, intervals,
                   exc>>

\* lines 31-46: rds.modify_db_cluster(PubliclyAccessible=True)
PA_Modify(outcome) ==
    /\ script = "public_access"
    /\ pc = "modify"
    /\ steps' = Append(steps, Step("modify_db_cluster", outcome = "ok",
                                   "PubliclyAccessible=True", NoText))
    /\ \/ /\ outcome = "ok"
          /\ printed' = printed \cup {"Aurora cluster modification initiated!"}
          /\ ret' = "True"
          /\ pc' = "done"
       \/ /\ outcome \in {"client_error", "other_error"}
          /\ PA_ReturnsFalse("Error enabling public access")
    /\ UNCHANGED <<appVars, cloudVars, app_py, script, rid, remote, status, polls, attempt, intervals,
                   exc>>

PA_Step ==
    \/ \E o \in {"ok", "error"} : PA_Client(o)
    \/ \E o \in {"line", "eof"}, a \in Answers : PA_Prompt(o, a)
    \/ \E o \in {"ok", "client_error", "other_error"} : PA_Modify(o)

(***************************************************************************)
(* create_knowledge_base_opensearch.py: create_complete_knowledge_base     *)
(* (lines 255-295), update_app_config (lines 297-320), main (322-330)      *)
(***************************************************************************)
\* lines 260-281: the step that follows each of the first four
CKC_NextStep(step) ==
    CASE step = "create_iam_roles" -> "get_existing_collection"
      [] step = "get_existing_collection" -> "create_knowledge_base"
      [] step = "create_knowledge_base" -> "create_data_source"
      [] step = "create_data_source" -> "start"

\* faulty variant: a step that returned None does not stop the function
CKC_AfterStepKeepsGoing(step, ok) == CKC_NextStep(step)

\* lines 262-263, 267-268, 272-273, 277-278: `if not result: return False`
CKC_AfterStep(step, ok) == IF ok THEN CKC_NextStep(step) ELSE "main"

\* lines 308-309: the text looked for in app.py and the text put in its place
ConfigPlaceholder == <<"KNOWLEDGE_BASE_ID", "=", Quoted("YOUR_KB_ID_HERE")>>
ConfigLine(kb) == <<"KNOWLEDGE_BASE_ID", "=", Quoted(kb)>>

\* kb_info['kb_id']: the id create_knowledge_base returned
KbIdCreated == steps[3].out

\* what a step function returns: None, or a dict; of the ids in the dicts
\* the model keeps the Knowledge Base id, the one written to app.py
CKC_StepResult(step, outcome, id) ==
    IF outcome # "ok" THEN None
    ELSE IF step = "create_knowledge_base" THEN id
    ELSE "dict"

\* lines 261-278: one of the first four steps.  Each function catches every
\* Exception and returns None; get_existing_collection also returns None
\* when no collection has the expected name.
CKC_SetupStep(outcome, id) ==
    /\ script = "complete_kb"
    /\ pc \in {"create_iam_roles", "get_existing_collection", "create_knowledge_base",
                "create_data_source"}
    /\ outcome = "not_found" => pc = "get_existing_collection"
    /\ steps' = Append(steps, Step(pc, outcome = "ok", CKC_StepResult(pc, outcome, id),
                                   NoText))
    /\ pc' = CKC_AfterStep(pc, outcome = "ok")
    /\ IF outcome = "ok"
       THEN /\ printed' = printed \cup {"Done: " \o pc}
            /\ ret' = ret
       ELSE /\ printed' = printed \cup {"Error: " \o pc}
            /\ ret' = "False"
    /\ UNCHANGED <<appVars, cloudVars, app_py, script, rid, remote, status, polls, attempt, intervals,
                   exc>>

\* lines 283-295 and 297-320: the summary, update_app_config and return True
CKC_UpdateAppConfig(outcome) ==
    /\ script = "complete_kb"
    /\ pc = "summary"
    /\ steps' = Append(steps, Step("update_app_config", outcome = "ok", KbIdCreated, NoText))
    /\ \/ /\ outcome = "ok"
          /\ app_py' = Replace(app_py, ConfigPlaceholder, ConfigLine(KbIdCreated))
          /\ printed' = printed \cup {"Knowledge Base Creation Summary",
                                      "Updated app.py with Knowledge Base ID: " \o KbIdCreated}
       \/ /\ outcome = "read_error"
          /\ app_py' = app_py
          /\ printed' = printed \cup {"Knowledge Base Creation Summary",
                                      "Could not update app.py automatically"}
       \/ /\ outcome = "write_error"
          /\ app_py' = <<>>
          /\ printed' = printed \cup {"Knowledge Base Creation Summary",
                                      "Could not update app.py automatically"}
    /\ ret' = "True"
    /\ pc' = "main"
    /\ UNCHANGED <<appVars, cloudVars, script, rid, remote, status, polls, attempt, intervals, exc>>

\* lines 326-330: main reports what create_complete_knowledge_base returned
CKC_MainReport ==
    /\ script = "complete_kb"
    /\ pc = "main"
    /\ printed' = printed \cup
          {IF ret = "True" THEN "Knowledge Base created successfully!"
                           ELSE "Knowledge Base creation failed"}
    /\ pc' = "done"
    /\ UNCHANGED <<appVars, cloudVars, steps, app_py, script, rid, remote, status, polls, attempt,
                   intervals, ret, exc>>

CKC_Step ==
    \/ \E o \in {"ok", "error", "not_found"}, id \in ResourceIds : CKC_SetupStep(o, id)
    \/ \E o \in {"ok", "read_error", "write_error"} : CKC_UpdateAppConfig(o)
    \/ CKC_MainReport

(***************************************************************************)
(* The scripts' specification                                              *)
(***************************************************************************)
\* lines 268-279: the script is started again once a run has ended.  The new
\* process starts from the constructor; only the account keeps what earlier
\* runs created.
OSS_RunAgain ==
    /\ script = "oss"
    /\ pc \in {"done", "crashed"}
    /\ run < MaxRuns
    /\ run' = run + 1
    /\ prev' = CreatedBy(steps)
    /\ pc' = "encryption"
    /\ rid' = ""
    /\ status' = "<none>"
    /\ polls' = 0
    /\ attempt' = 0
    /\ intervals' = {}
    /\ ret' = Running
    /\ printed' = {}
    /\ exc' = ""
    /\ steps' = <<>>
    /\ UNCHANGED <<appVars, app_py, script, remote, cloud>>

FirstPc(sc) ==
    CASE sc \in IngestScripts -> "start"
      [] sc = "create_kb" -> "prereq"
      [] sc = "oss" -> "encryption"
      [] sc = "setup_db" -> "execute"
      [] sc = "direct_aurora" -> "main"
      [] sc = "public_access" -> "client"
      [] sc = "complete_kb" -> "create_iam_roles"

ScriptsInit ==
    /\ AppStart
    /\ script \in Scripts
    /\ pc = FirstPc(script)
    /\ cloud \in (IF script = "oss" THEN Accounts ELSE {NoResources})
    /\ rid = ""
    /\ remote = (IF cloud.collection = "" THEN "NONE" ELSE "ACTIVE")
    /\ status = "<none>"
    /\ polls = 0
    /\ attempt = 0
    /\ intervals = {}
    /\ ret = Running
    /\ printed = {}
    /\ exc = ""
    /\ steps = <<>>
    /\ app_py = AppPySource
    /\ run = 1
    /\ prev = {}

\* a step of the running script
ProgramStep ==
    IngestStep \/ CKB_Step \/ OSS_Step \/ SDB_Step \/ DAS_Step \/ PA_Step \/ CKC_Step

ScriptsNext == ProgramStep \/ RemoteAdvance \/ OSS_RunAgain

SpecScripts == ScriptsInit /\ [][ScriptsNext]_vars

\* a running Python process keeps executing: its next step is taken
FairScripts == SpecScripts /\ WF_vars(ProgramStep)

(***************************************************************************)
(* Claims about app.py (checked under Spec)                                *)
(***************************************************************************)
LastHandled == last.branch # "none"

\* the assistant message appended for the latest handled input
LastResponse == messages[Len(messages)].content

CallNames(calls) == [i \in 1..Len(calls) |-> calls[i].fn]

HistoryShape ==
    /\ Len(messages) = 2 * handled
    /\ \A i \in 1..Len(messages) :
          messages[i].role = (IF i % 2 = 1 THEN "user" ELSE "assistant")

AppendOnly ==
    /\ Len(messages') >= Len(messages)
    /\ SubSeq(messages', 1, Len(messages)) = messages

\* C1: the chat history is linear and append-only: its length is twice the
\* number of handled inputs, roles alternate user, assistant starting with
\* user, and no step modifies or removes an earlier entry.
C1_HistoryLinearAppendOnly == [](HistoryShape) /\ [][AppendOnly]_vars

\* two inputs were handled, in different modes, the second one with a remote
\* call that raised
C1_Witness ==
    /\ handled = 2
    /\ Len(messages) = 4
    /\ messages[2].content.kind = "DemoCanned"
    /\ messages[4].content.kind = "KBError"
    /\ last.raised

\* C2: an input is handled by the demo branch if and only if kb_id equals
\* the literal "your-knowledge-base-id"; every other value is handled by the
\* Knowledge Base branch and reaches query_knowledge_base unchanged.
C2_ModeByExactEquality ==
    LastHandled =>
        /\ (last.branch = "demo") <=> (last.kb = "your-knowledge-base-id")
        /\ (last.branch = "kb") <=> (last.kb # "your-knowledge-base-id")
        /\ \A i \in 1..Len(last.calls) :
              /\ last.calls[i].fn = "query_knowledge_base"
                    => last.branch = "kb" /\ last.calls[i].kb = last.kb
              /\ last.calls[i].fn # "query_knowledge_base" => last.calls[i].kb = NoArg

\* an id that differs from the sentinel only by a trailing blank was queried
C2_Witness ==
    /\ last.kb = "your-knowledge-base-id "
    /\ last.branch = "kb"
    /\ \E i \in 1..Len(last.calls) :
          last.calls[i].fn = "query_knowledge_base"
             /\ last.calls[i].kb = "your-knowledge-base-id "

\* C3 as stated: every handled input makes exactly one remote call before
\* the assistant message is appended.
C3_ExactlyOneRemoteCall == LastHandled => Len(last.calls) = 1

\* C3 amended: a handled input makes between zero and three remote calls:
\* none without AWS; with AWS valid_prompt first, then (Knowledge Base mode
\* only) query_knowledge_base, then generate_response, each one only when
\* the one before it was made; the appended text is generate_response's
\* only when that call was the last one made.
C3_ZeroToThreeRemoteCalls ==
    LastHandled =>
        /\ Len(last.calls) <= 3
        /\ ~last.aws => last.calls = <<>>
        /\ last.aws /\ last.branch = "demo" =>
              CallNames(last.calls) \in
                 {<<"valid_prompt">>, <<"valid_prompt", "generate_response">>}
        /\ last.aws /\ last.branch = "kb" =>
              CallNames(last.calls) \in
                 {<<"valid_prompt">>,
                  <<"valid_prompt", "query_knowledge_base">>,
                  <<"valid_prompt", "query_knowledge_base", "generate_response">>}
        /\ LastResponse.kind = "Generated" =>
              last.calls[Len(last.calls)].fn = "generate_response"

\* a Knowledge Base input that made all three remote calls
C3_Witness ==
    /\ last.branch = "kb"
    /\ Len(last.calls) = 3
    /\ LastResponse.kind = "Generated"

\* C4: when the credential check failed, a handled input makes no remote
\* call and its assistant message is the canned text of its mode, built
\* from the prompt (demo mode) or from kb_id (Knowledge Base mode).
C4_NoRemoteCallWithoutAws ==
    LastHandled /\ ~last.aws =>
        /\ last.calls = <<>>
        /\ ~last.raised
        /\ last.branch = "demo" =>
              LastResponse = Content("DemoCanned", last.prompt, NoArg, NoText, "")
        /\ last.branch = "kb" =>
              LastResponse = Content("KBAwsRequired", NoArg, last.kb, NoText, "")

\* a Knowledge Base input handled without AWS
C4_Witness ==
    /\ LastHandled
    /\ ~last.aws
    /\ last.branch = "kb"
    /\ last.kb = "ABCD1234EF"
    /\ LastResponse.kind = "KBAwsRequired"

\* C5: in Knowledge Base mode with AWS, an exception raised by a remote
\* helper yields exactly one assistant message: not-found if the error text
\* contains "NotFound", else access-denied if it contains "AccessDenied",
\* else the generic error carrying the text; not-found wins when both occur.
C5_ErrorClassification ==
    LastHandled /\ last.branch = "kb" /\ last.aws /\ last.raised =>
        LET nf == Contains(NotFound, last.err) \/ Contains(ResourceNotFound, last.err)
            ad == Contains(AccessDenied, last.err)
        IN  /\ Len(messages) = 2 * handled
            /\ messages[Len(messages)].role = "assistant"
            /\ messages[Len(messages) - 1].role = "user"
            /\ LastResponse.kind \in {"KBNotFound", "KBAccessDenied", "KBError"}
            /\ (LastResponse.kind = "KBNotFound") <=> nf
            /\ (LastResponse.kind = "KBAccessDenied") <=> (ad /\ ~nf)
            /\ (LastResponse.kind = "KBError") <=> (~ad /\ ~nf)
            /\ LastResponse.kind = "KBError" => LastResponse.err = last.err
            /\ LastResponse.kind # "KBError" => LastResponse.kb = last.kb

\* after a first input that ended in an error message, a second input raised
\* an error whose text holds both substrings and was answered with not-found
C5_Witness ==
    /\ handled = 2
    /\ messages[2].content.kind \in {"KBNotFound", "KBAccessDenied", "KBError"}
    /\ last.branch = "kb" /\ last.aws /\ last.raised
    /\ last.err = ErrBoth
    /\ LastResponse.kind = "KBNotFound"

\* C15: in Knowledge Base mode the remote steps are ordered and gated:
\* query_knowledge_base is called only directly after valid_prompt returned
\* true for the same input, generate_response only directly after
\* query_knowledge_base returned a non-empty list; an invalid prompt and an
\* empty result list each produce their canned message with no later remote
\* call; in demo mode query_knowledge_base is never called.
C15_RemoteStepsOrderedAndGated ==
    LastHandled =>
        LET calls == last.calls
            n == Len(calls)
        IN  IF last.kb = "your-knowledge-base-id"
            THEN \A i \in 1..n : calls[i].fn # "query_knowledge_base"
            ELSE /\ \A i \in 1..n : calls[i].fn = "query_knowledge_base" =>
                       /\ i >= 2
                       /\ calls[i].kb = last.kb
                       /\ calls[i - 1].fn = "valid_prompt"
                       /\ calls[i - 1].prompt = calls[i].prompt
                       /\ calls[i].prompt = last.prompt
                       /\ calls[i - 1].out.t = "ret"
                       /\ calls[i - 1].out.v = TRUE
                 /\ \A i \in 1..n : calls[i].fn = "generate_response" =>
                       /\ i >= 2
                       /\ calls[i - 1].fn = "query_knowledge_base"
                       /\ calls[i - 1].out.t = "ret"
                       /\ Len(calls[i - 1].out.v) > 0
                       /\ calls[i].ctx = calls[i - 1].out.v
                 /\ \A i \in 1..n :
                       calls[i].fn = "valid_prompt" /\ calls[i].out.t = "ret"
                           /\ calls[i].out.v = FALSE =>
                       i = n /\ LastResponse.kind = "KBInvalid"
                 /\ \A i \in 1..n :
                       calls[i].fn = "query_knowledge_base" /\ calls[i].out.t = "ret"
                           /\ calls[i].out.v = <<>> =>
                       i = n /\ LastResponse.kind = "KBNoResults"

\* a Knowledge Base mode input went through all three remote steps
C15_Witness ==
    /\ LastHandled
    /\ last.kb = "ABCD1234EF"
    /\ CallNames(last.calls) = <<"valid_prompt", "query_knowledge_base", "generate_response">>
    /\ last.calls[2].out.v = <<"bd850-spec", "x950-spec">>
    /\ LastResponse.kind = "Generated"

(***************************************************************************)
(* Claims about the wait loops (checked under SpecScripts / FairScripts)   *)
(***************************************************************************)
\* a wait loop was entered and has been left
WaitOver == polls > 0 /\ pc \notin {"poll", "sleep"}

\* statuses the vendor documents as not final
NonTerminalStatuses == {"STARTING", "IN_PROGRESS", "STOPPING", "CREATING"}

\* C6: the ingestion waits stop at the first poll that reports COMPLETE or
\* FAILED and return the job id in both cases; after a poll that reports any
\* other status they sleep and poll again without returning.
C6_IngestionWaitStopsAtCompleteOrFailed ==
    script \in IngestScripts /\ status \in JobStatuses =>
        IF status \in {"COMPLETE", "FAILED"}
        THEN pc = "done" /\ ret = rid /\ rid \in ResourceIds
        ELSE pc \in {"sleep", "poll"} /\ ret = Running

\* start_ingestion_job of the guide returned the job id of a FAILED job after
\* polling at least three times
C6_Witness ==
    /\ script = "ingest_guide"
    /\ status = "FAILED"
    /\ polls >= 3
    /\ intervals = {30}
    /\ pc = "done"
    /\ ret = rid

\* C7 as stated: if get_ingestion_job never raises and the job reaches a
\* terminal status (COMPLETE, FAILED or STOPPED) and stays there, the
\* ingestion wait eventually stops polling and returns.
C7_ReturnsOnceJobIsTerminal ==
    script \in IngestScripts =>
        ( ( /\ <>[](remote \in {"COMPLETE", "FAILED", "STOPPED"})
            /\ [](status # "<error>" /\ pc # "crashed") )
          => <>(pc = "done") )

\* C8 as stated: every wait loop sleeps one fixed interval and has no
\* deadline: it is left only after a poll that did not report a non-final
\* status.
C8_FixedIntervalNoDeadline ==
    /\ Cardinality(intervals) <= 1
    /\ WaitOver => status \notin NonTerminalStatuses

\* C8 amended: every wait loop sleeps one fixed interval (10 s in
\* create_knowledge_base.py, 30 s in the others); the ingestion waits and the
\* collection wait of create_knowledge_base.py have no deadline; the wait of
\* setup_opensearch_serverless.py makes at most max_attempts = 20 polls and
\* then raises, whatever the status.
C8_FixedIntervalDeadlineOnlyInSetup ==
    /\ intervals \subseteq {IF script = "create_kb" THEN 10 ELSE 30}
    /\ script \in IngestScripts \cup {"create_kb"} /\ WaitOver
          => status \notin NonTerminalStatuses
    /\ script = "oss" => polls <= max_attempts /\ attempt <= max_attempts
    /\ script = "oss" /\ WaitOver /\ status # "ACTIVE"
          => /\ attempt = max_attempts
             /\ polls = max_attempts
             /\ pc = "crashed"
             /\ exc = "Collection did not become active within expected time"

\* an ingestion wait that has polled more than max_attempts times and goes on
C8_Witness ==
    /\ script = "ingest_class"
    /\ polls > max_attempts
    /\ status = "IN_PROGRESS"
    /\ intervals = {30}
    /\ pc = "sleep"

\* C9 as stated: when the collection's status becomes FAILED during the wait
\* of create_knowledge_base.py, the function returns None, main prints that
\* the collection could not be created and stops before
\* create_knowledge_base; no exception leaves main.
C9_FailedCollectionIsCaught ==
    script = "create_kb" /\ status = "FAILED" =>
        /\ pc = "done"
        /\ exc = ""
        /\ ret = None
        /\ "Failed to create OpenSearch collection" \in printed
        /\ "Creating Bedrock Knowledge Base..." \notin printed

\* C10 as stated: when the collection created by
\* setup_opensearch_serverless.py does not become ACTIVE during the wait,
\* create_collection returns None, 'OpenSearch setup failed' and 'Setup
\* failed' are printed, and no exception leaves create_collection.
C10_NotActiveReturnsNone ==
    script = "oss" /\ WaitOver /\ status # "ACTIVE" =>
        /\ pc = "done"
        /\ exc = ""
        /\ ret = None
        /\ {"OpenSearch setup failed", "Setup failed"} \subseteq printed

(***************************************************************************)
(* Claims about retries and the order of the setup steps (SpecScripts)     *)
(***************************************************************************)
\* a step that issues the status check of a wait loop
StatusCheck ==
    \/ \E o \in {"status", "client_error", "other_error"} : PollIngestion(o)
    \/ \E o \in {"status", "empty", "client_error", "other_error"} : CKB_Poll(o)
    \/ \E o \in {"status", "empty", "client_error", "other_error"} : OSS_Poll(o)

\* a step that was attempted and failed is not attempted again
NoStepRepeatedAfterFailure ==
    \A i, j \in 1..Len(steps) : i < j /\ ~steps[i].ok => steps[j].fn # steps[i].fn

Passed(i) ==
    \/ steps[i].ok
    \/ Contains(duplicate_object, steps[i].text)
    \/ Contains(already_exists, steps[i].text)

\* C12: setup_database.main executes its seven statements in list order,
\* each at most once; a statement is executed only if every earlier one
\* succeeded or failed with an error text containing "duplicate_object" or
\* "already exists", and after such an error the next statement runs; any
\* other error leaves main uncaught: no later statement runs and the success
\* message is not printed.  The success message is printed exactly when all
\* seven statements succeeded or failed with a tolerated error.
C12_StatementsInOrderStopAtFirstOtherError ==
    script = "setup_db" =>
        LET n == Len(steps)
            success == "Database schema setup completed successfully!" \in printed
        IN  /\ n <= 7
            /\ steps = [i \in 1..n |->
                         [steps[i] EXCEPT !.fn =
                             <<"CREATE EXTENSION vector", "CREATE SCHEMA bedrock_integration",
                               "CREATE ROLE bedrock_user", "GRANT ALL ON SCHEMA",
                               "SET SESSION AUTHORIZATION", "CREATE TABLE bedrock_kb",
                               "CREATE INDEX bedrock_kb_embedding_idx">>[i]]]
            /\ \A i \in 1..(n - 1) : Passed(i)
            /\ pc = "crashed" <=> (n >= 1 /\ ~Passed(n))
            /\ pc = "execute" <=> (n < 7 /\ \A i \in 1..n : Passed(i))
            /\ success <=> (n = 7 /\ \A i \in 1..n : Passed(i))
            /\ success <=> pc = "done"

\* all seven statements were executed, the third and the sixth failing with
\* tolerated errors, and the success message was printed
C12_Witness ==
    /\ script = "setup_db"
    /\ Len(steps) = 7
    /\ steps[3].text = SqlErrDuplicateObject
    /\ steps[6].text = SqlErrAlreadyExists
    /\ steps[7].ok
    /\ "Database schema setup completed successfully!" \in printed
    /\ pc = "done"

\* C13: in direct_aurora_setup.py, once the connection is open the seven
\* setup steps are each attempted exactly once, in order, whatever the
\* outcome of the earlier ones; setup_vector_database returns True exactly
\* when the connection was established, even when every step failed, and
\* main then prints the 'setup and verification completed' message.
C13_EveryStepAttemptedTrueIffConnected ==
    script = "direct_aurora" =>
        LET n == Len(steps)
            order == <<"connect", "vector extension", "bedrock_integration schema",
                       "bedrock_user role", "schema permissions", "bedrock_kb table",
                       "HNSW index", "table permissions">>
            connected == n >= 1 /\ steps[1].ok
            returned == ret \in {"True", "False"}
            completed == "Database setup and verification completed!" \in printed
        IN  /\ n <= 8
            /\ [i \in 1..n |-> steps[i].fn] = SubSeq(order, 1, n)
            /\ pc = "setup_step" <=> (connected /\ n < 8)
            /\ returned /\ connected => n = 8
            /\ returned => (ret = "True" <=> connected)
            /\ connected /\ pc \in {"verify", "done"} => ret = "True"
            /\ pc = "done" /\ returned => (completed <=> connected)
            /\ completed => pc = "done" /\ ret = "True"

\* the connection was opened, all seven steps were attempted and failed, the
\* function returned True and main printed the completion message
C13_Witness ==
    /\ script = "direct_aurora"
    /\ Len(steps) = 8
    /\ steps[1].ok
    /\ \A i \in 2..8 : ~steps[i].ok
    /\ ret = "True"
    /\ "Database setup and verification completed!" \in printed
    /\ pc = "done"

\* positions of the calls of fn in steps
CallsOf(fn) == {i \in 1..Len(steps) : steps[i].fn = fn}

\* C14: enable_aurora_public_access issues modify_db_cluster with
\* PubliclyAccessible=True only after the answer to the prompt, lower-cased
\* and stripped, equals "yes", and after such an answer it does issue it; for
\* every other answer ("y" and the empty line included) no RDS call is made
\* and the function returns False.
C14_PublicOnlyAfterYes ==
    script = "public_access" =>
        LET answered == {i \in CallsOf("input") : steps[i].ok}
            said_yes == \E i \in answered :
                            Strip(Lower(steps[i].text)) = <<"y", "e", "s">>
            modified == CallsOf("modify_db_cluster") # {}
        IN  /\ Cardinality(CallsOf("input")) <= 1
            /\ Cardinality(CallsOf("modify_db_cluster")) <= 1
            /\ modified => said_yes
            /\ said_yes => modified \/ pc = "modify"
            /\ \A i \in CallsOf("modify_db_cluster") :
                  /\ steps[i].out = "PubliclyAccessible=True"
                  /\ \E j \in answered : j < i
            /\ answered # {} /\ ~said_yes =>
                  /\ ~modified
                  /\ ret = "False"
                  /\ pc = "done"
                  /\ "Operation cancelled." \in printed
            /\ \A i \in answered :
                  steps[i].text \in {<<"y">>, <<>>, <<"n", "o">>} => ~modified /\ ret = "False"
            /\ ret = "True" => modified

\* the answer " Yes " was typed and the cluster was made publicly accessible
C14_Witness ==
    /\ script = "public_access"
    /\ Len(steps) = 3
    /\ steps[2].fn = "input"
    /\ steps[2].text = <<" ", "Y", "e", "s", " ">>
    /\ steps[3].fn = "modify_db_cluster"
    /\ steps[3].ok
    /\ ret = "True"
    /\ pc = "done"

\* C16: create_complete_knowledge_base attempts its steps in the order IAM
\* role, collection lookup, knowledge base, data source, ingestion; a step is
\* attempted only if every earlier one of the first four returned a result,
\* and at the first of these four that returns None the function returns
\* False: no later step is attempted and update_app_config is not called.
C16_StepsInOrderStopAtFirstNone ==
    script = "complete_kb" =>
        LET n == Len(steps)
            order == <<"create_iam_roles", "get_existing_collection",
                       "create_knowledge_base", "create_data_source",
                       "start_ingestion_job", "update_app_config">>
            four == 1..(IF n < 4 THEN n ELSE 4)
        IN  /\ n <= 6
            /\ [i \in 1..n |-> steps[i].fn] = SubSeq(order, 1, n)
            /\ \A i \in four : i < n => steps[i].ok /\ steps[i].out # "None"
            /\ \A i \in four : ~steps[i].ok =>
                  /\ i = n
                  /\ steps[i].out = "None"
                  /\ ret = "False"
                  /\ pc \in {"main", "done"}
                  /\ app_py = AppPySource
                  /\ "Knowledge Base Creation Summary" \notin printed
            /\ pc \in {"start", "poll", "sleep", "summary"} => \A i \in four : steps[i].ok
            /\ ret = "False" => \E i \in four : ~steps[i].ok

\* the knowledge base step returned None after two successful steps and the
\* function returned False
C16_Witness ==
    /\ script = "complete_kb"
    /\ Len(steps) = 3
    /\ steps[1].ok /\ steps[2].ok /\ ~steps[3].ok
    /\ steps[3].fn = "create_knowledge_base"
    /\ ret = "False"
    /\ "Knowledge Base creation failed" \in printed
    /\ pc = "done"

\* the role, collection, knowledge base and data source steps all succeeded
FourStepsSucceeded == Len(steps) >= 4 /\ \A i \in 1..4 : steps[i].ok

\* C17 as stated: create_complete_knowledge_base returns True, and main
\* prints 'Knowledge Base created successfully!', if and only if the role,
\* collection, knowledge base and data source steps all succeeded, whatever
\* the ingestion outcome.  (The vendor's job is taken to settle: it does not
\* stay STARTING, IN_PROGRESS or STOPPING for ever.)
C17_TrueIffFourStepsSucceeded ==
    script = "complete_kb" =>
        /\ [](pc \in {"main", "done"} => (ret = "True" <=> FourStepsSucceeded))
        /\ [](pc = "done" =>
                ("Knowledge Base created successfully!" \in printed <=> FourStepsSucceeded))
        /\ <>[](FourStepsSucceeded /\ remote \notin {"STARTING", "IN_PROGRESS", "STOPPING"})
              => <>(ret = "True" /\ "Knowledge Base created successfully!" \in printed)

\* C18 as stated: after update_app_config printed its 'Updated app.py with
\* Knowledge Base ID' message for kb_id, the content of the repository's
\* app.py contains kb_id.
C18_UpdatedAppPyContainsKbId ==
    script = "complete_kb" =>
        \A kb \in ResourceIds :
            ("Updated app.py with Knowledge Base ID: " \o kb) \in printed =>
                \E i \in 1..Len(app_py) : app_py[i] \in {kb, Quoted(kb)}

\* C19: setup_complete_opensearch creates the policies before the
\* collection: create_collection is called only after the encryption,
\* network and data access policy steps have each returned True, in that
\* order (an already existing policy counting as True), and at the first
\* policy step that returns False the function returns None without
\* attempting any later step.
C19_PoliciesBeforeCollection ==
    script = "oss" =>
        LET n == Len(steps)
            order == <<"encryption", "network", "data_access", "create_collection">>
            policies == 1..(IF n < 3 THEN n ELSE 3)
        IN  /\ n <= 4
            /\ [i \in 1..n |-> steps[i].fn] = SubSeq(order, 1, n)
            /\ \A i \in policies : i < n => steps[i].out \in {"created", "conflict"}
            /\ \A i \in policies : steps[i].out \in {"created", "conflict"} =>
                  i < n \/ pc = <<"network", "data_access", "create">>[i]
            /\ \A i \in policies : steps[i].out \in {"client_error", "no_user_arn"} =>
                  /\ i = n
                  /\ ret = "None"
                  /\ pc = "done"
                  /\ "Setup failed" \in printed
                  /\ rid = "" /\ polls = 0
                  /\ "create_collection" \notin CreatedBy(steps)
                  /\ cloud.collection = "" => remote = "NONE"
            /\ pc \in {"create", "poll", "sleep"} \/ rid # "" =>
                  n >= 3 /\ \A i \in 1..3 : steps[i].out \in {"created", "conflict"}

\* the collection was created after one new and two already existing policies
C19_Witness ==
    /\ script = "oss"
    /\ Len(steps) = 4
    /\ steps[1].out = "conflict"
    /\ steps[2].out = "created"
    /\ steps[3].out = "conflict"
    /\ steps[4].fn = "create_collection"
    /\ steps[4].ok
    /\ remote = "CREATING"
    /\ pc = "poll"

\* C20 as stated: in the collection wait of setup_opensearch_serverless.py,
\* after a status check that reported FAILED no further batch_get_collection
\* call is made: the wait ends with 'Collection creation failed'.
C20_FailedEndsTheWait ==
    [][script = "oss" /\ status = "FAILED" =>
          ~(\E o \in {"status", "empty", "client_error", "other_error"} : OSS_Poll(o))]_vars

\* a step that issues the status check of the setup wait
OSS_StatusCheck == \E o \in {"status", "empty", "client_error", "other_error"} : OSS_Poll(o)

\* C21: the collection wait of setup_opensearch_serverless.py always
\* terminates.  Whatever the status checks answer, it makes at most 20 of
\* them; every answer other than ACTIVE adds exactly one to attempt and
\* ACTIVE adds nothing; the wait ends by returning the collection info at the
\* first ACTIVE answer, or by raising after the 20th answer that was not
\* ACTIVE, and it does end.
C21_WaitEndsWithinTwentyChecks ==
    /\ [](script = "oss" =>
            /\ polls <= 20
            /\ attempt <= 20
            /\ polls = attempt + (IF status = "ACTIVE" THEN 1 ELSE 0)
            /\ status = "ACTIVE" =>
                  pc = "done" /\ ret = rid /\ rid \in {"id-1", "id-2"} /\ exc = ""
            /\ polls > 0 /\ pc \notin {"poll", "sleep"} /\ status # "ACTIVE" =>
                  /\ polls = 20
                  /\ pc = "crashed"
                  /\ exc = "Collection did not become active within expected time"
            /\ pc = "poll" => attempt < 20)
    /\ [][script = "oss" /\ OSS_StatusCheck =>
            /\ polls' = polls + 1
            /\ attempt' = IF status' = "ACTIVE" THEN attempt ELSE attempt + 1]_vars
    /\ (script = "oss" /\ pc \in {"poll", "sleep"}) ~> (pc \in {"done", "crashed"})

\* the wait raised after twenty status checks, the last of which reported
\* FAILED
C21_Witness ==
    /\ script = "oss"
    /\ polls = 20
    /\ attempt = 20
    /\ status = "FAILED"
    /\ intervals = {30}
    /\ pc = "crashed"
    /\ exc = "Collection did not become active within expected time"

\* ---- C22 ----
\* the conflict answers of create_collection: lines 211-225
CollectionConflicts == {"conflict_found", "conflict_not_listed", "conflict_list_error"}

\* a finished run that follows a run which created the three policies and
\* the collection, and in which every create call answered ConflictException
RunOverExistingResources ==
    /\ script = "oss"
    /\ run >= 2
    /\ prev = PolicySteps \cup {"create_collection"}
    /\ pc \in {"done", "crashed"}
    /\ Len(steps) = 4
    /\ \A i \in 1..3 : steps[i].out = "conflict"
    /\ steps[4].out \in CollectionConflicts

\* C22 as stated: a run of setup_complete_opensearch over the resources an
\* earlier run created, every create call answering ConflictException,
\* creates no resource and returns a collection info that is not None and
\* carries the id of the existing collection heavy-machinery-kb.
C22_SecondRunReturnsExistingCollection ==
    RunOverExistingResources =>
        /\ CreatedBy(steps) = {}
        /\ cloud.policies = PolicySteps
        /\ pc = "done"
        /\ ret # None
        /\ ret = cloud.collection

====
